---- MODULE Spec2Model ----
(***************************************************************************)
(* A model of autoCommit-CLI: the plan builder (DateCalculator), the       *)
(* execution engine (CommitGenerator), the VCS collaborator (GitService)   *)
(* and the generate command's interrupt handler.                           *)
(*                                                                         *)
(* Dates are integers: a date string "YYYY-MM-DD" is the number of days    *)
(* since 2024-01-01 (a Monday), a negative number is a string that does    *)
(* not parse; a Date is the number of milliseconds since 2024-01-01T00:00  *)
(* local time (no daylight-saving shift in the modelled days).  A time     *)
(* string "HH:MM" is the pair <<HH, MM>>.  A value of Math.random() is a   *)
(* numerator n standing for n / RandScale.                                 *)
(***************************************************************************)
EXTENDS Integers, Sequences, FiniteSets, TLC

VARIABLES
    config,     \* the Config handed to the plan builder and to generate()
    plan,       \* the CommitPlan[] last returned by generateCommitPlan
    built,      \* TRUE once generateCommitPlan has returned
    isRepo,     \* the directory is a Git repository
    history,    \* the commits of the current branch, oldest first: the
                \* author date of each, -1 for a commit older than the run
    cancelled,          \* CommitGenerator.cancelled
    generatedCommits,   \* CommitGenerator.generatedCommits
    gpc,        \* where generate() is: idle, validating, committing (a
                \* createCommit is in flight and has not committed yet),
                \* landed (it has committed and has not returned yet),
                \* pushing, returned, threw
    pos,        \* the plan position (from 1) of the entry generate() is at
    errors,     \* generate()'s errors list
    result,     \* the GenerateResult generate() returned
    thrown,     \* the ErrorCode generate() threw, "none" if none
    progress,   \* the calls of onProgress: <<current, total, kind>>
    interrupted,    \* the generate command's interrupted flag
    exited,     \* process.exit was called
    signals,    \* the SIGINT/SIGTERM signals delivered so far
    rb,         \* the rollback call in flight or finished
    preRun,     \* Len(history) when generate() was called
    attempted,  \* the plan positions createCommit was called for, in order
    landed,     \* the commits the run has created
    pushes,     \* the calls of push
    cancelAt,   \* generatedCommits when cancel() was first called in the
                \* run, else -1
    atCheck,    \* what held when the cancellation check fired
    atCancel,   \* what held when cancel() was first called in the run
    rbCall,     \* the last call of CommitGenerator.rollback: whether its
                \* count was omitted, generatedCommits when it was called
    cmd,        \* where the generate command is: none (not started),
                \* start, previewed, running, done
    dryRun,     \* the command's --dry-run option
    preview,    \* the plan the command built for its summary
    answer      \* the last answer of a query (estimate, statistics,
                \* validation): <<the query, its value>>

planVars == <<config, plan, built>>
repoVars == <<isRepo, history>>
engineVars == <<cancelled, generatedCommits>>
frameVars == <<gpc, pos, errors, result, thrown, progress>>
commandVars == <<interrupted, exited, signals>>
ghostVars == <<preRun, attempted, landed, pushes, cancelAt, atCheck, atCancel, rbCall>>
cliVars == <<cmd, dryRun, preview, answer>>
vars == <<planVars, repoVars, engineVars, frameVars, commandVars, rb, ghostVars,
          cliVars>>

----------------------------------------------------------------------------
(* Bounds of the model *)

RandScale == 1000
StreamLen == 5
MaxRangeDays == 3
MaxPerDay == 2
MaxPreCommits == 2
MaxSignals == 2
MaxRollback == 3

\* The values Math.random() takes: the least, a middle and the greatest.
RandomValues == {0, RandScale \div 2, RandScale - 1}

\* The outcomes of the random source: the k-th call of Math.random() in a
\* run of generateCommitPlan returns rnd[k % StreamLen].
RandomStreams == [0 .. StreamLen - 1 -> RandomValues]

\* the outcomes of the random source in a run of the engine
EngineStreams == [0 .. StreamLen - 1 -> {0, RandScale - 1}]

random(rnd, k) == rnd[k % StreamLen]

\* Math.floor(r * n) for r = num / RandScale
FloorMul(num, n) == (num * n) \div RandScale

----------------------------------------------------------------------------
(* date-fns and Date, on milliseconds since 2024-01-01T00:00 *)

MsPerSecond == 1000
MsPerMinute == 60 * MsPerSecond
MsPerHour == 60 * MsPerMinute
MsPerDay == 24 * MsPerHour

parseISO(dateStr) == IF dateStr < 0 THEN -1 ELSE dateStr * MsPerDay

isValid(date) == date >= 0

isAfter(a, b) == a > b

getTime(date) == date

\* the calendar day (days since 2024-01-01) a Date falls on
dayOf(date) == date \div MsPerDay

\* 0 = Sunday ... 6 = Saturday; 2024-01-01 is a Monday
getDay(date) == (dayOf(date) + 1) % 7

getHours(date) == (date % MsPerDay) \div MsPerHour
getMinutes(date) == (date % MsPerHour) \div MsPerMinute
getSeconds(date) == (date % MsPerMinute) \div MsPerSecond
getMilliseconds(date) == date % MsPerSecond

\* Date.prototype.setHours and its kin replace one field and keep the
\* others; a value past the field's range carries into the next field.
setHours(date, h) == date - getHours(date) * MsPerHour + h * MsPerHour
setMinutes(date, m) == date - getMinutes(date) * MsPerMinute + m * MsPerMinute
setSeconds(date, s) == date - getSeconds(date) * MsPerSecond + s * MsPerSecond
setMilliseconds(date, ms) == date - getMilliseconds(date) + ms

\* format(date, 'HH:mm:ss')
formatTime(date) == <<getHours(date), getMinutes(date), getSeconds(date)>>

\* eachDayOfInterval({start, end}): the start of every day from start to end
RECURSIVE eachDayOfInterval(_, _)
eachDayOfInterval(start, end) ==
    IF start > end THEN << >>
    ELSE <<dayOf(start) * MsPerDay>> \o eachDayOfInterval(start + MsPerDay, end)

RECURSIVE SelectSeqIn(_, _)
SelectSeqIn(s, skip) ==
    IF s = << >> THEN << >>
    ELSE (IF getDay(Head(s)) \in skip THEN << >> ELSE <<Head(s)>>)
         \o SelectSeqIn(Tail(s), skip)

----------------------------------------------------------------------------
(* DateCalculator *)

\* parseTime: "HH:MM" -> {hours, minutes}
parseTime(timeStr) == [hours |-> timeStr[1], minutes |-> timeStr[2]]

\* generateRandomTime with a range one minute too long
generateRandomTimeOffByOne(startTime, endTime, r1, r2) ==
    LET start == parseTime(startTime)
        end == parseTime(endTime)
        startMinutes == start.hours * 60 + start.minutes
        endMinutes == end.hours * 60 + end.minutes
        randomMinutes == FloorMul(r1, endMinutes - startMinutes + 2) + startMinutes
        randomSeconds == FloorMul(r2, 60)
    IN  [hours |-> randomMinutes \div 60,
         minutes |-> randomMinutes % 60,
         seconds |-> randomSeconds]

\* generateRandomTime, with the two values Math.random() returns in it
generateRandomTime(startTime, endTime, r1, r2) ==
    LET start == parseTime(startTime)
        end == parseTime(endTime)
        startMinutes == start.hours * 60 + start.minutes
        endMinutes == end.hours * 60 + end.minutes
        randomMinutes == FloorMul(r1, endMinutes - startMinutes + 1) + startMinutes
        randomSeconds == FloorMul(r2, 60)
    IN  [hours |-> randomMinutes \div 60,
         minutes |-> randomMinutes % 60,
         seconds |-> randomSeconds]

\* validateDateRange: the error it throws, "none" when it returns
validateDateRange(startDate, endDate) ==
    LET start == parseISO(startDate)
        end == parseISO(endDate)
    IN  IF ~isValid(start) THEN "INVALID_DATE_RANGE"
        ELSE IF ~isValid(end) THEN "INVALID_DATE_RANGE"
        ELSE IF isAfter(start, end) THEN "INVALID_DATE_RANGE"
        ELSE "none"

\* getDaysInRange, for a range validateDateRange accepts
getDaysInRange(startDate, endDate, skipDays) ==
    LET start == parseISO(startDate)
        end == parseISO(endDate)
        allDays == eachDayOfInterval(start, end)
    IN  SelectSeqIn(allDays, skipDays)

\* a count drawn from min .. max + 1
getRandomCommitCountPastMax(min, max, r) == FloorMul(r, max - min + 2) + min

\* getRandomCommitCount, with the value Math.random() returns in it
getRandomCommitCount(min, max, r) == FloorMul(r, max - min + 1) + min

\* shouldSkipDay with <= for <
shouldSkipDayInclusive(probability, r) == r <= probability

\* shouldSkipDay, with the value Math.random() returns in it
shouldSkipDay(probability, r) == r < probability

\* a message that renders {{index}} from 0
formatCommitMessageZeroBased(template, date, index) ==
    [k \in 1 .. Len(template) |->
        CASE template[k] = "{{index}}" -> <<"index", index>>
          [] template[k] = "{{date}}"  -> <<"date", dayOf(date)>>
          [] template[k] = "{{time}}"  -> <<"time", date % MsPerDay>>
          [] OTHER -> <<template[k], 0>>]

\* formatCommitMessage: the template is a sequence of tokens, a placeholder
\* is replaced by <<its name, the number it renders>>, other text is kept
formatCommitMessage(template, date, index) ==
    [k \in 1 .. Len(template) |->
        CASE template[k] = "{{index}}" -> <<"index", index + 1>>
          [] template[k] = "{{date}}"  -> <<"date", dayOf(date)>>
          [] template[k] = "{{time}}"  -> <<"time", date % MsPerDay>>
          [] OTHER -> <<template[k], 0>>]

\* the comparator of plan.sort
compareCommits(a, b) == getTime(a.date) - getTime(b.date)

\* a sort that is not stable: an element is placed before its equals
RECURSIVE insertSortedUnstable(_, _)
insertSortedUnstable(s, e) ==
    IF s = << >> THEN <<e>>
    ELSE IF compareCommits(s[Len(s)], e) < 0 THEN Append(s, e)
    ELSE Append(insertSortedUnstable(SubSeq(s, 1, Len(s) - 1), e), s[Len(s)])

\* Array.prototype.sort is stable: an element is placed after every element
\* that does not compare greater than it
RECURSIVE insertSorted(_, _)
insertSorted(s, e) ==
    IF s = << >> THEN <<e>>
    ELSE IF compareCommits(s[Len(s)], e) <= 0 THEN Append(s, e)
    ELSE Append(insertSorted(SubSeq(s, 1, Len(s) - 1), e), s[Len(s)])

\* a plan left in generation order
keepOrder(s) == s

RECURSIVE sortFrom(_, _, _)
sortFrom(s, k, acc) ==
    IF k > Len(s) THEN acc ELSE sortFrom(s, k + 1, insertSorted(acc, s[k]))

sort(s) == sortFrom(s, 1, << >>)

\* an inner loop that numbers the commits of each day from 0
RECURSIVE commitsOfDayRestarting(_, _, _, _, _, _)
commitsOfDayRestarting(cfg, rnd, day, i, commitCount, acc) ==
    IF i >= commitCount THEN acc
    ELSE
      LET time == generateRandomTime(cfg.timeRange.start, cfg.timeRange.end,
                                     random(rnd, acc.calls),
                                     random(rnd, acc.calls + 1))
          d1 == setHours(day, time.hours)
          d2 == setMinutes(d1, time.minutes)
          d3 == setSeconds(d2, time.seconds)
          commitDate == setMilliseconds(d3, FloorMul(random(rnd, acc.calls + 2), 1000))
          entry == [date |-> commitDate,
                    time |-> formatTime(commitDate),
                    message |-> formatCommitMessage(cfg.commitMessage, commitDate, i),
                    index |-> i]
      IN  commitsOfDayRestarting(cfg, rnd, day, i + 1, commitCount,
                                 [plan |-> Append(acc.plan, entry),
                                  commitIndex |-> acc.commitIndex + 1,
                                  calls |-> acc.calls + 3])

\* one pass of the inner loop of generateCommitPlan (lines 250-275): acc
\* holds the plan so far, commitIndex and the number of Math.random() calls
RECURSIVE commitsOfDay(_, _, _, _, _, _)
commitsOfDay(cfg, rnd, day, i, commitCount, acc) ==
    IF i >= commitCount THEN acc
    ELSE
      LET time == generateRandomTime(cfg.timeRange.start, cfg.timeRange.end,
                                     random(rnd, acc.calls),
                                     random(rnd, acc.calls + 1))
          d1 == setHours(day, time.hours)
          d2 == setMinutes(d1, time.minutes)
          d3 == setSeconds(d2, time.seconds)
          commitDate == setMilliseconds(d3, FloorMul(random(rnd, acc.calls + 2), 1000))
          message == formatCommitMessage(cfg.commitMessage, commitDate, acc.commitIndex)
          entry == [date |-> commitDate,
                    time |-> formatTime(commitDate),
                    message |-> message,
                    index |-> acc.commitIndex]
      IN  commitsOfDay(cfg, rnd, day, i + 1, commitCount,
                       [plan |-> Append(acc.plan, entry),
                        commitIndex |-> acc.commitIndex + 1,
                        calls |-> acc.calls + 3])

\* the loop over the days of generateCommitPlan (lines 237-276)
RECURSIVE planOfDays(_, _, _, _, _)
planOfDays(cfg, rnd, days, k, acc) ==
    IF k > Len(days) THEN acc
    ELSE IF shouldSkipDay(cfg.skipProbability, random(rnd, acc.calls))
    THEN planOfDays(cfg, rnd, days, k + 1, [acc EXCEPT !.calls = @ + 1])
    ELSE
      LET commitCount == getRandomCommitCount(cfg.commitsPerDay.min,
                                              cfg.commitsPerDay.max,
                                              random(rnd, acc.calls + 1))
      IN  planOfDays(cfg, rnd, days, k + 1,
                     commitsOfDay(cfg, rnd, days[k], 0, commitCount,
                                  [acc EXCEPT !.calls = @ + 2]))

\* generateCommitPlan, for a range validateDateRange accepts
generateCommitPlan(cfg, rnd) ==
    LET days == getDaysInRange(cfg.startDate, cfg.endDate, cfg.skipDays)
        unsorted == planOfDays(cfg, rnd, days, 1,
                               [plan |-> << >>, commitIndex |-> 0, calls |-> 0])
    IN  sort(unsorted.plan)

\* an estimate whose expected count is rounded up
estimateCommitCountCeil(cfg) ==
    LET days == getDaysInRange(cfg.startDate, cfg.endDate, cfg.skipDays)
        scaledDays == Len(days) * (RandScale - cfg.skipProbability)
    IN  [min |-> (scaledDays * cfg.commitsPerDay.min) \div RandScale,
         max |-> (scaledDays * cfg.commitsPerDay.max) \div RandScale,
         expected |->
             (scaledDays * (cfg.commitsPerDay.min + cfg.commitsPerDay.max)
                  + 2 * RandScale - 1) \div (2 * RandScale)]

\* estimateCommitCount: effectiveDays = days.length * (1 - skipProbability)
\* is scaledDays / RandScale, and Math.floor of a quotient is \div
estimateCommitCount(cfg) ==
    LET days == getDaysInRange(cfg.startDate, cfg.endDate, cfg.skipDays)
        scaledDays == Len(days) * (RandScale - cfg.skipProbability)
    IN  [min |-> (scaledDays * cfg.commitsPerDay.min) \div RandScale,
         max |-> (scaledDays * cfg.commitsPerDay.max) \div RandScale,
         expected |->
             (scaledDays * (cfg.commitsPerDay.min + cfg.commitsPerDay.max))
                 \div (2 * RandScale)]

\* the days of a sequence that fall on a Saturday or a Sunday
RECURSIVE weekendsOf(_)
weekendsOf(days) ==
    IF days = << >> THEN 0
    ELSE (IF getDay(Head(days)) \in {0, 6} THEN 1 ELSE 0) + weekendsOf(Tail(days))

\* statistics whose active days are all the days of the range
getDateStatsUnfiltered(startDate, endDate, skipDays) ==
    LET allDays == getDaysInRange(startDate, endDate, {})
        weekends == weekendsOf(allDays)
    IN  [totalDays |-> Len(allDays),
         weekdays |-> Len(allDays) - weekends,
         weekends |-> weekends,
         activeDays |-> Len(allDays)]

\* getDateStats, for a range validateDateRange accepts
getDateStats(startDate, endDate, skipDays) ==
    LET allDays == getDaysInRange(startDate, endDate, {})
        activeDays == getDaysInRange(startDate, endDate, skipDays)
        weekends == weekendsOf(allDays)
    IN  [totalDays |-> Len(allDays),
         weekdays |-> Len(allDays) - weekends,
         weekends |-> weekends,
         activeDays |-> Len(activeDays)]

----------------------------------------------------------------------------
(* Validator.  A number is twice its value, so that a half is a number that *)
(* is no integer.                                                           *)

MaxCommitsPerDay == 50

isInteger(x2) == x2 % 2 = 0

\* isValidCommitsPerDay
isValidCommitsPerDay(min2, max2) ==
    /\ isInteger(min2)
    /\ isInteger(max2)
    /\ min2 >= 2 * 0
    /\ max2 >= 2 * 1
    /\ min2 <= max2
    /\ max2 <= 2 * MaxCommitsPerDay

----------------------------------------------------------------------------
(* The plan builder on its own: every config of the bounded sets, every    *)
(* outcome of the random source.                                           *)

FirstDays == {0, 4, 5}
SkipDaySets == {{}, {0, 6}, {1}}
TimeRanges == {[start |-> <<9, 0>>, end |-> <<9, 1>>],
               [start |-> <<23, 59>>, end |-> <<23, 59>>]}
Templates == {<<"commit #", "{{index}}">>}

PlanConfigs ==
    [startDate : FirstDays,
     endDate : 0 .. 5 + MaxRangeDays,
     commitsPerDay : [min : 0 .. MaxPerDay, max : 0 .. MaxPerDay],
     commitMessage : Templates,
     skipDays : SkipDaySets,
     skipProbability : {0, RandScale \div 2, RandScale},
     timeRange : TimeRanges,
     autoPush : {FALSE}]

ValidPlanConfig(cfg) ==
    /\ cfg.startDate <= cfg.endDate
    /\ cfg.endDate - cfg.startDate < MaxRangeDays
    /\ cfg.commitsPerDay.min <= cfg.commitsPerDay.max

NoResult == [success |-> FALSE, totalCommits |-> -1, errors |-> << >>]
NoRollback == [pc |-> "none", by |-> "none", count |-> 0, error |-> "none", total |-> 0]
NoCheck == [fired |-> FALSE, applied |-> 0, landed |-> 0, attempted |-> 0, pushes |-> 0]
NoCancel == [called |-> FALSE, attempted |-> 0, landed |-> 0, pushes |-> 0]
NoCall == [omitted |-> FALSE, applied |-> 0]
NoAnswer == <<"none", 0>>

\* a fresh CommitGenerator, no call made yet
EngineIdle ==
    /\ plan = << >>
    /\ built = FALSE
    /\ cancelled = FALSE
    /\ generatedCommits = 0
    /\ gpc = "idle"
    /\ pos = 0
    /\ errors = << >>
    /\ result = NoResult
    /\ thrown = "none"
    /\ progress = << >>
    /\ interrupted = FALSE
    /\ exited = FALSE
    /\ signals = 0
    /\ rb = NoRollback
    /\ preRun = 0
    /\ attempted = << >>
    /\ landed = 0
    /\ pushes = 0
    /\ cancelAt = -1
    /\ atCheck = NoCheck
    /\ atCancel = NoCancel
    /\ rbCall = NoCall
    /\ cmd = "none"
    /\ dryRun = FALSE
    /\ preview = << >>
    /\ answer = NoAnswer

PlanInit ==
    /\ config \in {cfg \in PlanConfigs : ValidPlanConfig(cfg)}
    /\ isRepo = TRUE
    /\ history = << >>
    /\ EngineIdle

BuildPlan ==
    /\ ~built
    /\ \E rnd \in RandomStreams : plan' = generateCommitPlan(config, rnd)
    /\ built' = TRUE
    /\ UNCHANGED <<cliVars, config, repoVars, engineVars, frameVars, commandVars, rb, ghostVars>>

PlanNext == BuildPlan

PlanSpec == PlanInit /\ [][PlanNext]_vars

----------------------------------------------------------------------------
(* The queries on their own: the estimate and the statistics of every      *)
(* config of the bounded sets, the validation of every pair of numbers     *)
(* around the limits.                                                      *)

\* the numbers (twice their value) handed to isValidCommitsPerDay: around 0
\* and around the greatest count allowed, halves included
CommitCounts ==
    -2 .. 3 \cup (2 * MaxCommitsPerDay - 2) .. (2 * MaxCommitsPerDay + 2)

\* each query is asked of a fresh config
GetEstimate ==
    /\ answer = NoAnswer
    /\ answer' = <<"estimate", estimateCommitCount(config)>>
    /\ UNCHANGED <<planVars, repoVars, engineVars, frameVars, commandVars, rb,
                   ghostVars, cmd, dryRun, preview>>

GetDateStats ==
    /\ answer = NoAnswer
    /\ answer' = <<"stats",
                   getDateStats(config.startDate, config.endDate, config.skipDays)>>
    /\ UNCHANGED <<planVars, repoVars, engineVars, frameVars, commandVars, rb,
                   ghostVars, cmd, dryRun, preview>>

ValidateCommitsPerDay ==
    /\ answer = NoAnswer
    /\ \E min2, max2 \in CommitCounts :
          answer' = <<"commitsPerDay",
                      [min |-> min2, max |-> max2,
                       valid |-> isValidCommitsPerDay(min2, max2)]>>
    /\ UNCHANGED <<planVars, repoVars, engineVars, frameVars, commandVars, rb,
                   ghostVars, cmd, dryRun, preview>>

QueryInit == PlanInit

QueryNext == GetEstimate \/ GetDateStats \/ ValidateCommitsPerDay

QuerySpec == QueryInit /\ [][QueryNext]_vars

----------------------------------------------------------------------------
(* GitService *)

\* a reset that stops at the first commit when count reaches past it
gitResetTruncating(h, count) ==
    IF count < Len(h)
    THEN [ok |-> TRUE, history |-> SubSeq(h, 1, Len(h) - count)]
    ELSE [ok |-> TRUE, history |-> << >>]

\* git reset --hard HEAD~count: HEAD~count names a commit only when the
\* branch holds more than count commits
gitReset(h, count) ==
    IF count < Len(h)
    THEN [ok |-> TRUE, history |-> SubSeq(h, 1, Len(h) - count)]
    ELSE [ok |-> FALSE, history |-> h]

\* GitService.rollback rejecting only a negative count
gitServiceRollbackZeroAllowed(by, count) ==
    IF count < 0
    THEN [pc |-> "threw", by |-> by, count |-> count,
          error |-> "INVALID_CONFIG", total |-> Len(history)]
    ELSE [pc |-> "resetting", by |-> by, count |-> count,
          error |-> "none", total |-> Len(history)]

\* GitService.rollback up to its await: a count <= 0 is rejected, any other
\* count starts the reset
gitServiceRollback(by, count) ==
    IF count <= 0
    THEN [pc |-> "threw", by |-> by, count |-> count,
          error |-> "INVALID_CONFIG", total |-> Len(history)]
    ELSE [pc |-> "resetting", by |-> by, count |-> count,
          error |-> "none", total |-> Len(history)]

\* GitService.rollback after its await: the reset has run
afterReset(call, reset) ==
    IF reset.ok
    THEN [call EXCEPT !.pc = "returned"]
    ELSE [call EXCEPT !.pc = "threw", !.error = "GIT_OPERATION_FAILED"]

----------------------------------------------------------------------------
(* CommitGenerator *)

\* the count argument of CommitGenerator.rollback: omitted, or a number
RollbackCounts == {-3, 0} \cup 1 .. MaxRollback

RollbackArgs ==
    {[omitted |-> TRUE, value |-> 0]}
        \cup [omitted : {FALSE}, value : RollbackCounts]

\* a default count that is the plan length
rollbackCountOfPlan(arg) == IF arg.omitted THEN Len(plan) ELSE arg.value

\* count ?? this.generatedCommits
rollbackCountOf(arg) == IF arg.omitted THEN generatedCommits ELSE arg.value

\* CommitGenerator.rollback up to its await
engineRollback(by, arg) ==
    IF rollbackCountOf(arg) > 0
    THEN gitServiceRollback(by, rollbackCountOf(arg))
    ELSE [pc |-> "returned", by |-> by, count |-> rollbackCountOf(arg),
          error |-> "none", total |-> Len(history)]

\* the GenerateResult built at the end of generate()
resultOf(errs, total) ==
    [success |-> errs = << >>, totalCommits |-> total, errors |-> errs]

\* an empty-plan result whose success flag follows its errors list
emptyPlanResultFailed ==
    [success |-> FALSE, totalCommits |-> 0, errors |-> << <<"note", 0>> >>]

\* the GenerateResult of an empty plan
emptyPlanResult ==
    [success |-> TRUE, totalCommits |-> 0, errors |-> << <<"note", 0>> >>]

\* a push that does not depend on the number of commits generated
AfterLoopPushAlways(g, errs) ==
    IF config.autoPush
    THEN /\ gpc' = "pushing"
         /\ pushes' = pushes + 1
         /\ UNCHANGED <<result, thrown, pos, attempted, atCheck>>
    ELSE /\ gpc' = "returned"
         /\ result' = resultOf(errs, g)
         /\ UNCHANGED <<pushes, thrown, pos, attempted, atCheck>>

\* generate() after the loop, with g commits generated and the errors errs:
\* push if configured, else return
AfterLoop(g, errs) ==
    IF config.autoPush /\ g > 0
    THEN /\ gpc' = "pushing"
         /\ pushes' = pushes + 1
         /\ UNCHANGED <<result, thrown, pos, attempted, atCheck>>
    ELSE /\ gpc' = "returned"
         /\ result' = resultOf(errs, g)
         /\ UNCHANGED <<pushes, thrown, pos, attempted, atCheck>>

\* a loop that calls createCommit before it checks for cancellation
LoopTopLateCheck(p, k, g, errs) ==
    IF k > Len(p) THEN AfterLoop(g, errs)
    ELSE IF cancelled
    THEN /\ gpc' = "threw"
         /\ thrown' = "USER_CANCELLED"
         /\ atCheck' = [fired |-> TRUE, applied |-> g, landed |-> landed,
                        attempted |-> Len(attempted), pushes |-> pushes]
         /\ attempted' = Append(attempted, k)
         /\ UNCHANGED <<result, pos, pushes>>
    ELSE /\ gpc' = "committing"
         /\ pos' = k
         /\ attempted' = Append(attempted, k)
         /\ UNCHANGED <<result, thrown, pushes, atCheck>>

\* the top of the loop of generate() at plan position k of the plan p, with
\* g commits generated: the cancellation check, then createCommit is called
LoopTop(p, k, g, errs) ==
    IF k > Len(p) THEN AfterLoop(g, errs)
    ELSE IF cancelled
    THEN /\ gpc' = "threw"
         /\ thrown' = "USER_CANCELLED"
         /\ atCheck' = [fired |-> TRUE, applied |-> g, landed |-> landed,
                        attempted |-> Len(attempted), pushes |-> pushes]
         /\ UNCHANGED <<result, pos, attempted, pushes>>
    ELSE /\ gpc' = "committing"
         /\ pos' = k
         /\ attempted' = Append(attempted, k)
         /\ UNCHANGED <<result, thrown, pushes, atCheck>>

\* generate() is called: the state is reset and validateRepo awaited.  The
\* generate command has registered its interrupt handler just before.
CallGenerate ==
    /\ gpc = "idle"
    /\ ~exited
    /\ cancelled' = FALSE
    /\ generatedCommits' = 0
    /\ gpc' = "validating"
    /\ preRun' = Len(history)
    /\ UNCHANGED <<cliVars, planVars, repoVars, pos, errors, result, thrown, progress,
                   commandVars, rb, attempted, landed, pushes, cancelAt, atCheck,
                   atCancel, rbCall>>

\* validateRepo throws: not a Git repository
ValidateFails ==
    /\ gpc = "validating"
    /\ ~exited
    /\ ~isRepo
    /\ gpc' = "threw"
    /\ thrown' = "NOT_A_GIT_REPO"
    /\ UNCHANGED <<cliVars, planVars, repoVars, engineVars, pos, errors, result, progress,
                   commandVars, rb, ghostVars>>

\* a plan built, and its range error thrown, before the repository is checked
PlanThrowsUnchecked ==
    /\ gpc = "validating"
    /\ ~exited
    /\ validateDateRange(config.startDate, config.endDate) # "none"
    /\ gpc' = "threw"
    /\ thrown' = validateDateRange(config.startDate, config.endDate)
    /\ UNCHANGED <<cliVars, planVars, repoVars, engineVars, pos, errors, result, progress,
                   commandVars, rb, ghostVars>>

\* validateRepo returns and generatePlan throws: the date range is not valid
PlanThrows ==
    /\ gpc = "validating"
    /\ ~exited
    /\ isRepo
    /\ validateDateRange(config.startDate, config.endDate) # "none"
    /\ gpc' = "threw"
    /\ thrown' = validateDateRange(config.startDate, config.endDate)
    /\ UNCHANGED <<cliVars, planVars, repoVars, engineVars, pos, errors, result, progress,
                   commandVars, rb, ghostVars>>

\* validateRepo returns and the plan is empty: generate() returns at once
PlanEmpty ==
    /\ gpc = "validating"
    /\ ~exited
    /\ isRepo
    /\ validateDateRange(config.startDate, config.endDate) = "none"
    /\ \E rnd \in EngineStreams :
          /\ generateCommitPlan(config, rnd) = << >>
          /\ plan' = << >>
    /\ built' = TRUE
    /\ gpc' = "returned"
    /\ result' = emptyPlanResult
    /\ UNCHANGED <<cliVars, config, repoVars, engineVars, pos, errors, thrown, progress,
                   commandVars, rb, ghostVars>>

\* validateRepo returns, the plan has entries: the loop starts
PlanReady ==
    /\ gpc = "validating"
    /\ ~exited
    /\ isRepo
    /\ validateDateRange(config.startDate, config.endDate) = "none"
    /\ \E rnd \in EngineStreams :
          /\ generateCommitPlan(config, rnd) # << >>
          /\ plan' = generateCommitPlan(config, rnd)
    /\ built' = TRUE
    /\ LoopTop(plan', 1, generatedCommits, errors)
    /\ UNCHANGED <<cliVars, config, repoVars, engineVars, errors, progress,
                   commandVars, rb, preRun, landed, cancelAt, atCancel, rbCall>>

\* the git commit of the createCommit in flight succeeds
CommitLands ==
    /\ gpc = "committing"
    /\ ~exited
    /\ history' = Append(history, plan[pos].date)
    /\ landed' = landed + 1
    /\ gpc' = "landed"
    /\ UNCHANGED <<cliVars, planVars, isRepo, engineVars, pos, errors, result, thrown,
                   progress, commandVars, rb, preRun, attempted, pushes,
                   cancelAt, atCheck, atCancel, rbCall>>

\* a success reported with the applied count for the plan position
CommitReturnsReportingCount ==
    /\ gpc = "landed"
    /\ ~exited
    /\ generatedCommits' = generatedCommits + 1
    /\ progress' = Append(progress, <<generatedCommits + 1, Len(plan), "ok">>)
    /\ LoopTop(plan, pos + 1, generatedCommits + 1, errors)
    /\ UNCHANGED <<cliVars, planVars, repoVars, cancelled, errors, commandVars, rb,
                   preRun, landed, cancelAt, atCancel, rbCall>>

\* the createCommit in flight returns: the entry is counted and reported,
\* and the loop goes on
CommitReturns ==
    /\ gpc = "landed"
    /\ ~exited
    /\ generatedCommits' = generatedCommits + 1
    /\ progress' = Append(progress, <<pos, Len(plan), "ok">>)
    /\ LoopTop(plan, pos + 1, generatedCommits + 1, errors)
    /\ UNCHANGED <<cliVars, planVars, repoVars, cancelled, errors, commandVars, rb,
                   preRun, landed, cancelAt, atCancel, rbCall>>

\* a failure that ends the loop instead of going on with the next entry
CommitFailsAborting ==
    /\ gpc = "committing"
    /\ ~exited
    /\ errors' = Append(errors, <<"commit", pos>>)
    /\ progress' = Append(progress, <<pos, Len(plan), "error">>)
    /\ AfterLoop(generatedCommits, Append(errors, <<"commit", pos>>))
    /\ UNCHANGED <<cliVars, planVars, repoVars, engineVars, commandVars, rb,
                   preRun, landed, cancelAt, atCancel, rbCall>>

\* the createCommit in flight throws before it has committed: the failure
\* is recorded and reported, and the loop goes on
CommitFails ==
    /\ gpc = "committing"
    /\ ~exited
    /\ errors' = Append(errors, <<"commit", pos>>)
    /\ progress' = Append(progress, <<pos, Len(plan), "error">>)
    /\ LoopTop(plan, pos + 1, generatedCommits, Append(errors, <<"commit", pos>>))
    /\ UNCHANGED <<cliVars, planVars, repoVars, engineVars, commandVars, rb,
                   preRun, landed, cancelAt, atCancel, rbCall>>

\* a late failure that counts the commit it left in the repository
CommitFailsLateCounting ==
    /\ gpc = "landed"
    /\ ~exited
    /\ errors' = Append(errors, <<"commit", pos>>)
    /\ progress' = Append(progress, <<pos, Len(plan), "error">>)
    /\ generatedCommits' = generatedCommits + 1
    /\ LoopTop(plan, pos + 1, generatedCommits + 1, Append(errors, <<"commit", pos>>))
    /\ UNCHANGED <<cliVars, planVars, repoVars, cancelled, commandVars, rb,
                   preRun, landed, cancelAt, atCancel, rbCall>>

\* the createCommit in flight throws after it has committed (its read of the
\* new commit's hash fails): the failure is recorded and reported, the commit
\* stays and is not counted, and the loop goes on
CommitFailsLate ==
    /\ gpc = "landed"
    /\ ~exited
    /\ errors' = Append(errors, <<"commit", pos>>)
    /\ progress' = Append(progress, <<pos, Len(plan), "error">>)
    /\ LoopTop(plan, pos + 1, generatedCommits, Append(errors, <<"commit", pos>>))
    /\ UNCHANGED <<cliVars, planVars, repoVars, engineVars, commandVars, rb,
                   preRun, landed, cancelAt, atCancel, rbCall>>

\* push returns
PushOk ==
    /\ gpc = "pushing"
    /\ ~exited
    /\ gpc' = "returned"
    /\ result' = resultOf(errors, generatedCommits)
    /\ UNCHANGED <<cliVars, planVars, repoVars, engineVars, pos, errors, thrown, progress,
                   commandVars, rb, ghostVars>>

\* push throws: the failure is recorded
PushFails ==
    /\ gpc = "pushing"
    /\ ~exited
    /\ errors' = Append(errors, <<"push", 0>>)
    /\ gpc' = "returned"
    /\ result' = resultOf(Append(errors, <<"push", 0>>), generatedCommits)
    /\ UNCHANGED <<cliVars, planVars, repoVars, engineVars, pos, thrown, progress,
                   commandVars, rb, ghostVars>>

Running == gpc \in {"validating", "committing", "landed", "pushing"}
Ended == gpc \in {"returned", "threw"}

\* what a first call of cancel() finds: the createCommit and push calls made
\* and the commits created so far
CancelSeen ==
    [called |-> TRUE, attempted |-> Len(attempted), landed |-> landed,
     pushes |-> pushes]

\* a cancel() that flips the flag instead of setting it
CancelToggling ==
    /\ Running
    /\ ~exited
    /\ cancelled' = ~cancelled
    /\ cancelAt' = IF Running /\ cancelAt = -1 THEN generatedCommits ELSE cancelAt
    /\ atCancel' = IF atCancel.called THEN atCancel ELSE CancelSeen
    /\ UNCHANGED <<cliVars, planVars, repoVars, generatedCommits, frameVars, commandVars,
                   rb, preRun, attempted, landed, pushes, atCheck, rbCall>>

\* cancel() is called from outside generate(), while it runs
Cancel ==
    /\ Running
    /\ ~exited
    /\ cancelled' = TRUE
    /\ cancelAt' = IF Running /\ cancelAt = -1 THEN generatedCommits ELSE cancelAt
    /\ atCancel' = IF atCancel.called THEN atCancel ELSE CancelSeen
    /\ UNCHANGED <<cliVars, planVars, repoVars, generatedCommits, frameVars, commandVars,
                   rb, preRun, attempted, landed, pushes, atCheck, rbCall>>

\* a caller calls CommitGenerator.rollback once the run has ended
CallRollback ==
    /\ Ended
    /\ ~exited
    /\ ~interrupted
    /\ rb.pc = "none"
    /\ \E arg \in RollbackArgs :
          /\ rb' = engineRollback("engine", arg)
          /\ rbCall' = [omitted |-> arg.omitted, applied |-> generatedCommits]
    /\ UNCHANGED <<cliVars, planVars, repoVars, engineVars, frameVars, commandVars,
                   preRun, attempted, landed, pushes, cancelAt, atCheck, atCancel>>

\* a caller calls GitService.rollback once the run has ended
CallGitRollback ==
    /\ Ended
    /\ ~exited
    /\ ~interrupted
    /\ rb.pc = "none"
    /\ \E count \in RollbackCounts : rb' = gitServiceRollback("git", count)
    /\ UNCHANGED <<cliVars, planVars, repoVars, engineVars, frameVars, commandVars, ghostVars>>

\* a rollback that sets generatedCommits to 0 whether the reset failed or not
ResetDoneClearing ==
    /\ rb.pc = "resetting"
    /\ rb.by \in {"engine", "git"}
    /\ ~exited
    /\ LET reset == gitReset(history, rb.count)
       IN  /\ history' = reset.history
           /\ rb' = afterReset(rb, reset)
           /\ generatedCommits' = IF rb.by = "engine" THEN 0 ELSE generatedCommits
    /\ UNCHANGED <<cliVars, planVars, isRepo, cancelled, frameVars, commandVars, ghostVars>>

\* the reset of a caller's rollback has run; CommitGenerator.rollback sets
\* generatedCommits to 0 when GitService.rollback returns
ResetDone ==
    /\ rb.pc = "resetting"
    /\ rb.by \in {"engine", "git"}
    /\ ~exited
    /\ LET reset == gitReset(history, rb.count)
       IN  /\ history' = reset.history
           /\ rb' = afterReset(rb, reset)
           /\ generatedCommits' =
                  IF rb.by = "engine" /\ reset.ok THEN 0 ELSE generatedCommits
    /\ UNCHANGED <<cliVars, planVars, isRepo, cancelled, frameVars, commandVars, ghostVars>>

----------------------------------------------------------------------------
(* The generate command's interrupt handler *)

\* the handlers are registered before generate() is called and removed when
\* it returns a result; when it throws they stay
Listening == Running \/ (gpc = "threw" /\ thrown = "USER_CANCELLED")

\* SIGINT or SIGTERM is delivered: handleInterrupt runs up to its await.  A
\* second signal returns at once.  The first cancels the run and reads the
\* generated count; with nothing generated it exits, else it calls
\* rollback().
Interrupt ==
    /\ Listening
    /\ ~exited
    /\ rb.by \in {"none", "handler"}
    /\ signals < MaxSignals
    /\ signals' = signals + 1
    /\ IF interrupted
       THEN UNCHANGED <<interrupted, cancelled, cancelAt, atCancel, rb, rbCall,
                        exited>>
       ELSE /\ interrupted' = TRUE
            /\ cancelled' = TRUE
            /\ cancelAt' = IF Running /\ cancelAt = -1 THEN generatedCommits ELSE cancelAt
            /\ atCancel' = IF Running /\ ~atCancel.called THEN CancelSeen ELSE atCancel
            /\ IF generatedCommits > 0
               THEN /\ rb' = engineRollback("handler", [omitted |-> TRUE, value |-> 0])
                    /\ rbCall' = [omitted |-> TRUE, applied |-> generatedCommits]
                    /\ UNCHANGED exited
               ELSE /\ exited' = TRUE
                    /\ UNCHANGED <<rb, rbCall>>
    /\ UNCHANGED <<cliVars, planVars, repoVars, generatedCommits, frameVars,
                   preRun, attempted, landed, pushes, atCheck>>

\* the reset of the handler's rollback has run: generatedCommits is set to 0
\* when it succeeded, and the handler exits the process
HandlerResetDone ==
    /\ rb.pc = "resetting"
    /\ rb.by = "handler"
    /\ ~exited
    /\ LET reset == gitReset(history, rb.count)
       IN  /\ history' = reset.history
           /\ rb' = afterReset(rb, reset)
           /\ generatedCommits' = IF reset.ok THEN 0 ELSE generatedCommits
    /\ exited' = TRUE
    /\ UNCHANGED <<cliVars, planVars, isRepo, cancelled, frameVars, interrupted, signals,
                   ghostVars>>

----------------------------------------------------------------------------
(* The engine, its callers and the signals *)

EngineConfigs ==
    [startDate : {-1, 0, 1},
     endDate : {0, 1},
     commitsPerDay : {[min |-> 0, max |-> 1], [min |-> 1, max |-> 2]},
     commitMessage : Templates,
     skipDays : {{}},
     skipProbability : {0, RandScale \div 2},
     timeRange : {[start |-> <<9, 0>>, end |-> <<9, 0>>]},
     autoPush : BOOLEAN]

Init ==
    /\ config \in EngineConfigs
    /\ isRepo \in BOOLEAN
    /\ history \in {[k \in 1 .. n |-> -1] : n \in 0 .. MaxPreCommits}
    /\ EngineIdle

Next ==
    \/ CallGenerate
    \/ ValidateFails
    \/ PlanThrows
    \/ PlanEmpty
    \/ PlanReady
    \/ CommitLands
    \/ CommitReturns
    \/ CommitFails
    \/ CommitFailsLate
    \/ PushOk
    \/ PushFails
    \/ Cancel
    \/ CallRollback
    \/ CallGitRollback
    \/ ResetDone
    \/ Interrupt
    \/ HandlerResetDone

Spec == Init /\ [][Next]_vars

----------------------------------------------------------------------------
(* The generate command: executeGenerate from its preflight checks on, with *)
(* the engine it creates and the interrupt handler it registers.            *)

CommandConfigs ==
    [startDate : {0, 1},
     endDate : {0},
     commitsPerDay : {[min |-> 0, max |-> 0], [min |-> 0, max |-> 1],
                      [min |-> 1, max |-> 2]},
     commitMessage : Templates,
     skipDays : {{}},
     skipProbability : {0, RandScale \div 2},
     timeRange : {[start |-> <<9, 0>>, end |-> <<9, 0>>]},
     autoPush : BOOLEAN]

\* Validator.preflightChecks: the path is a repository and the config is valid
preflightPassed ==
    /\ isRepo
    /\ validateDateRange(config.startDate, config.endDate) = "none"
    /\ isValidCommitsPerDay(2 * config.commitsPerDay.min,
                            2 * config.commitsPerDay.max)

\* the preflight checks fail: the errors are printed and the process exits
CmdPreflightFails ==
    /\ cmd = "start"
    /\ ~preflightPassed
    /\ cmd' = "failed"
    /\ exited' = TRUE
    /\ UNCHANGED <<planVars, repoVars, engineVars, frameVars, interrupted, signals,
                   rb, ghostVars, dryRun, preview, answer>>

\* the preflight checks pass: the command builds the plan it shows in its
\* summary
CmdPreview ==
    /\ cmd = "start"
    /\ preflightPassed
    /\ \E rnd \in EngineStreams : preview' = generateCommitPlan(config, rnd)
    /\ cmd' = "previewed"
    /\ UNCHANGED <<planVars, repoVars, engineVars, frameVars, commandVars, rb,
                   ghostVars, dryRun, answer>>

\* a dry run that goes on to the generation after it has listed the plan
CmdDryRunExecuting ==
    /\ cmd = "previewed"
    /\ dryRun
    /\ cmd' = "confirmed"
    /\ UNCHANGED <<planVars, repoVars, engineVars, frameVars, commandVars, rb,
                   ghostVars, dryRun, preview, answer>>

\* --dry-run: the plan is listed and the command returns
CmdDryRun ==
    /\ cmd = "previewed"
    /\ dryRun
    /\ cmd' = "done"
    /\ UNCHANGED <<planVars, repoVars, engineVars, frameVars, commandVars, rb,
                   ghostVars, dryRun, preview, answer>>

\* the user answers no to "Generate n commits?": the command returns
CmdDecline ==
    /\ cmd = "previewed"
    /\ ~dryRun
    /\ cmd' = "done"
    /\ answer' = <<"confirm", [count |-> Len(preview), confirmed |-> FALSE]>>
    /\ UNCHANGED <<planVars, repoVars, engineVars, frameVars, commandVars, rb,
                   ghostVars, dryRun, preview>>

\* the user answers yes to "Generate n commits?" (or --yes was given): the
\* progress bar is started with n as its total and the handlers registered
CmdConfirm ==
    /\ cmd = "previewed"
    /\ ~dryRun
    /\ cmd' = "confirmed"
    /\ answer' = <<"confirm", [count |-> Len(preview), confirmed |-> TRUE]>>
    /\ UNCHANGED <<planVars, repoVars, engineVars, frameVars, commandVars, rb,
                   ghostVars, dryRun, preview>>

\* the command calls generate() of its engine
CmdGenerate ==
    /\ cmd = "confirmed"
    /\ CallGenerate

\* generate() has returned or thrown a cancellation: the command returns
CmdFinish ==
    /\ cmd = "confirmed"
    /\ ~exited
    /\ \/ gpc = "returned"
       \/ gpc = "threw" /\ thrown = "USER_CANCELLED"
    /\ cmd' = "done"
    /\ UNCHANGED <<planVars, repoVars, engineVars, frameVars, commandVars, rb,
                   ghostVars, dryRun, preview, answer>>

CommandInit ==
    /\ config \in CommandConfigs
    /\ isRepo \in BOOLEAN
    /\ history \in {[k \in 1 .. n |-> -1] : n \in 0 .. 1}
    /\ plan = << >>
    /\ built = FALSE
    /\ cancelled = FALSE
    /\ generatedCommits = 0
    /\ gpc = "idle"
    /\ pos = 0
    /\ errors = << >>
    /\ result = NoResult
    /\ thrown = "none"
    /\ progress = << >>
    /\ interrupted = FALSE
    /\ exited = FALSE
    /\ signals = 0
    /\ rb = NoRollback
    /\ preRun = 0
    /\ attempted = << >>
    /\ landed = 0
    /\ pushes = 0
    /\ cancelAt = -1
    /\ atCheck = NoCheck
    /\ atCancel = NoCancel
    /\ rbCall = NoCall
    /\ cmd = "start"
    /\ dryRun \in BOOLEAN
    /\ preview = << >>
    /\ answer = NoAnswer

CommandNext ==
    \/ CmdPreflightFails
    \/ CmdPreview
    \/ CmdDryRun
    \/ CmdDecline
    \/ CmdConfirm
    \/ CmdGenerate
    \/ PlanEmpty
    \/ PlanReady
    \/ CommitLands
    \/ CommitReturns
    \/ CommitFails
    \/ CommitFailsLate
    \/ PushOk
    \/ PushFails
    \/ Interrupt
    \/ HandlerResetDone
    \/ CmdFinish

CommandSpec == CommandInit /\ [][CommandNext]_vars

----------------------------------------------------------------------------
(* Properties of the plan builder *)

PlanIndices == 1 .. Len(plan)

startMinutesOf(cfg) == cfg.timeRange.start[1] * 60 + cfg.timeRange.start[2]
endMinutesOf(cfg) == cfg.timeRange.end[1] * 60 + cfg.timeRange.end[2]

\* the days of [startDate, endDate] whose weekday is not skipped
ActiveDays(cfg) ==
    {d \in cfg.startDate .. cfg.endDate : getDay(parseISO(d)) \notin cfg.skipDays}

\* the number of plan entries that fall on day d
EntriesOn(d) == Cardinality({k \in PlanIndices : dayOf(plan[k].date) = d})

\* C1: the plan generateCommitPlan returns is sorted non-decreasing by
\* timestamp, and of two entries with the same timestamp the one with the
\* smaller index comes first.
C1_PlanSorted ==
    built =>
        \A i, j \in PlanIndices :
            i < j =>
                /\ getTime(plan[i].date) <= getTime(plan[j].date)
                /\ getTime(plan[i].date) = getTime(plan[j].date)
                       => plan[i].index < plan[j].index

\* a plan with two entries of one timestamp, and with an entry the sort moved
\* ahead of one generated before it
C1_Witness ==
    /\ built
    /\ \E i, j \in PlanIndices :
           i < j /\ getTime(plan[i].date) = getTime(plan[j].date)
    /\ \E i, j \in PlanIndices :
           i < j /\ plan[i].index > plan[j].index

\* what holds of every entry whatever reading of "time of day": its day is in
\* the range and its weekday is not skipped
EntryOnAllowedDay(e) ==
    /\ config.startDate <= dayOf(e.date)
    /\ dayOf(e.date) <= config.endDate
    /\ getDay(e.date) \notin config.skipDays

\* C8 as stated: every entry's day lies in [startDate, endDate], its time of
\* day lies in [timeRange.start, timeRange.end], its weekday is not skipped.
C8_EntriesInWindow ==
    built =>
        \A k \in PlanIndices :
            /\ EntryOnAllowedDay(plan[k])
            /\ startMinutesOf(config) * MsPerMinute <= plan[k].date % MsPerDay
            /\ plan[k].date % MsPerDay <= endMinutesOf(config) * MsPerMinute

\* C8 amended: every entry's day lies in [startDate, endDate], its weekday is
\* not skipped, and its time of day cut to the minute lies in
\* [timeRange.start, timeRange.end]; the seconds and milliseconds are drawn
\* apart, so an entry falls less than a minute after timeRange.end.
C8_EntriesInWindowToTheMinute ==
    built =>
        \A k \in PlanIndices :
            /\ EntryOnAllowedDay(plan[k])
            /\ startMinutesOf(config) <= getHours(plan[k].date) * 60 + getMinutes(plan[k].date)
            /\ getHours(plan[k].date) * 60 + getMinutes(plan[k].date) <= endMinutesOf(config)
            /\ plan[k].time = formatTime(plan[k].date)
            /\ plan[k].date % MsPerDay < (endMinutesOf(config) + 1) * MsPerMinute

\* a range holding a skipped weekday, and a plan with an entry in the first
\* minute of the window and one in its last minute with seconds drawn
C8_Witness ==
    /\ built
    /\ \E d \in config.startDate .. config.endDate :
           getDay(parseISO(d)) \in config.skipDays
    /\ startMinutesOf(config) < endMinutesOf(config)
    /\ \E k \in PlanIndices :
           plan[k].date % MsPerDay = startMinutesOf(config) * MsPerMinute
    /\ \E k \in PlanIndices :
           /\ getHours(plan[k].date) * 60 + getMinutes(plan[k].date) = endMinutesOf(config)
           /\ getSeconds(plan[k].date) > 0

\* C9: with skipProbability = 0 every day of the range whose weekday is not
\* skipped gets between min and max entries; so with no skipped weekday and
\* min = max = k a range of D days gives D * k entries; and with
\* min = max = 0 the plan is empty.
C9_CommitsPerDay ==
    built =>
        /\ config.skipProbability = 0 =>
               \A d \in ActiveDays(config) :
                   /\ config.commitsPerDay.min <= EntriesOn(d)
                   /\ EntriesOn(d) <= config.commitsPerDay.max
        /\ ( /\ config.skipProbability = 0
             /\ config.skipDays = {}
             /\ config.commitsPerDay.min = config.commitsPerDay.max )
               => Len(plan) = (config.endDate - config.startDate + 1)
                                  * config.commitsPerDay.min
        /\ ( /\ config.commitsPerDay.min = 0
             /\ config.commitsPerDay.max = 0 ) => plan = << >>

\* skipProbability = 0 and min < max: two days of the range that got
\* different numbers of entries, the least and the greatest allowed
C9_Witness ==
    /\ built
    /\ config.skipProbability = 0
    /\ \E d1, d2 \in ActiveDays(config) :
           /\ EntriesOn(d1) = config.commitsPerDay.min
           /\ EntriesOn(d2) = config.commitsPerDay.max
           /\ EntriesOn(d1) < EntriesOn(d2)

----------------------------------------------------------------------------
(* Properties of the engine *)

\* the commit failures recorded in an errors list
CommitFailures(errs) == Cardinality({k \in 1 .. Len(errs) : errs[k][1] = "commit"})

\* C2: in a run during which cancel() is never called, createCommit is
\* called once for every plan entry, in plan order, also after a failure; so
\* when generate() returns, totalCommits plus the recorded commit failures
\* is the plan length.
C2_EveryEntryOnce ==
    cancelAt = -1 =>
        /\ attempted = [k \in 1 .. Len(attempted) |-> k]
        /\ Len(attempted) <= Len(plan)
        /\ \A k \in 1 .. Len(errors) :
               errors[k][1] = "commit" => errors[k][2] \in 1 .. Len(attempted)
        /\ gpc = "returned" =>
               /\ Len(attempted) = Len(plan)
               /\ result.totalCommits + CommitFailures(result.errors) = Len(plan)

\* a run without cancel() that returned: its first entry failed, a later
\* one was committed
C2_Witness ==
    /\ cancelAt = -1
    /\ gpc = "returned"
    /\ Len(plan) >= 3
    /\ <<"commit", 1>> = result.errors[1]
    /\ result.totalCommits >= 1

\* C3 as stated: cancel() called when k entries have been committed
\* successfully makes the applied count exactly k when the check fires,
\* generate() throws USER_CANCELLED and no createCommit or push is called
\* after the check.
C3_AppliedIsCountAtRequest ==
    atCheck.fired =>
        /\ atCheck.applied = cancelAt
        /\ thrown = "USER_CANCELLED"
        /\ Len(attempted) = atCheck.attempted
        /\ pushes = atCheck.pushes

\* C3 amended: cancel() called when k entries have been committed
\* successfully makes the applied count k when the check fires, or k + 1 when
\* the createCommit in flight at the call returned after it; generate()
\* throws USER_CANCELLED, and after the check it calls no createCommit and no
\* push and no commit is created.
C3_AppliedAtCheck ==
    atCheck.fired =>
        /\ atCheck.applied \in {cancelAt, cancelAt + 1}
        /\ atCheck.applied = generatedCommits \/ rb.pc # "none"
        /\ gpc = "threw"
        /\ thrown = "USER_CANCELLED"
        /\ Len(attempted) = atCheck.attempted
        /\ pushes = atCheck.pushes
        /\ landed = atCheck.landed

\* cancel() was called with a createCommit in flight after one entry or more,
\* the createCommit returned, the check fired
C3_Witness ==
    /\ atCheck.fired
    /\ cancelAt >= 1
    /\ atCheck.applied = cancelAt + 1

\* C4: a run that returned without any error, then rollback(appliedCount):
\* the rollback returns and the repository holds as many commits as before
\* the run.
C4_RollbackInvertsRun ==
    ( /\ gpc = "returned"
      /\ CommitFailures(result.errors) = 0
      /\ result.totalCommits = Len(plan)
      /\ rb.by = "engine"
      /\ rb.pc \in {"returned", "threw"}
      /\ rb.count = result.totalCommits )
        => /\ rb.pc = "returned"
           /\ Len(history) = preRun

\* C5: once the interrupt handler has finished (it exits the process when
\* its rollback is done), the repository holds as many commits as before
\* the run.
C5_InterruptRestoresRepo ==
    exited => Len(history) = preRun

C7_TooLargeCountFails ==
    (rb.pc \in {"returned", "threw"} /\ rb.count > rb.total) =>
        /\ rb.pc = "threw"
        /\ rb.error = "GIT_OPERATION_FAILED"
        /\ Len(history) = rb.total

\* a rollback of more commits than a repository with commits holds has thrown
C7_Witness ==
    /\ rb.pc = "threw"
    /\ rb.total > 0
    /\ rb.count > rb.total

\* C10: the result's success flag is true exactly when its error list is
\* empty.
C10_SuccessIffNoErrors ==
    gpc = "returned" => (result.success <=> result.errors = << >>)

\* C11: a run during which cancel() was called, at whatever moment after its
\* first createCommit call, ends by throwing USER_CANCELLED and never by
\* returning a result.
C11_CancelledRunThrows ==
    (atCancel.called /\ atCancel.attempted > 0 /\ Ended) =>
        /\ gpc = "threw"
        /\ thrown = "USER_CANCELLED"

\* C12: after cancel() is called during a run no createCommit is started, at
\* most the one commit in flight at the call is created, and nothing else is
\* sent to the VCS: no push is started.
C12_NoVcsCallAfterCancel ==
    atCancel.called =>
        /\ Len(attempted) = atCancel.attempted
        /\ landed <= atCancel.landed + 1
        /\ pushes = atCancel.pushes

\* C13: when generate() throws NOT_A_GIT_REPO or INVALID_DATE_RANGE no
\* createCommit and no push was called, no commit was created and no plan
\* was returned; the repository is checked before the plan is built, so a
\* directory that is no repository gives NOT_A_GIT_REPO whatever the range.
C13_PreconditionsBeforeMutation ==
    (gpc = "threw" /\ thrown \in {"NOT_A_GIT_REPO", "INVALID_DATE_RANGE"}) =>
        /\ attempted = << >>
        /\ pushes = 0
        /\ landed = 0
        /\ ~built
        /\ progress = << >>
        /\ rb.pc = "none" => Len(history) = preRun
        /\ thrown = "NOT_A_GIT_REPO" <=> ~isRepo
        /\ thrown = "INVALID_DATE_RANGE" =>
               validateDateRange(config.startDate, config.endDate) # "none"

\* generate() threw NOT_A_GIT_REPO for a config whose range is inverted, in a
\* directory that is no repository
C13_Witness ==
    /\ gpc = "threw"
    /\ thrown = "NOT_A_GIT_REPO"
    /\ config.startDate > config.endDate

\* C14: when the plan is empty generate() returns at once with
\* totalCommits = 0 and success = true; no createCommit, no push and no
\* progress call was made, also with autoPush set.
C14_EmptyPlanReturns ==
    (gpc = "returned" /\ plan = << >>) =>
        /\ result.totalCommits = 0
        /\ result.success
        /\ attempted = << >>
        /\ pushes = 0
        /\ landed = 0
        /\ progress = << >>
        /\ rb.pc = "none" => Len(history) = preRun

\* generate() returned for an empty plan with autoPush set, in a repository
\* that holds commits
C14_Witness ==
    /\ gpc = "returned"
    /\ built
    /\ plan = << >>
    /\ config.autoPush
    /\ Len(history) > 0

\* the push failures recorded in an errors list
PushFailures(errs) == Cardinality({k \in 1 .. Len(errs) : errs[k][1] = "push"})

\* the entries reported as committed to the progress sink
OkReports == Cardinality({k \in 1 .. Len(progress) : progress[k][3] = "ok"})

\* C15: push is called at most once in a run, after the loop, and it is
\* called exactly when autoPush is set and the applied count is above 0; a
\* failed push adds one error, the last of the list, and totalCommits stays
\* the number of entries committed.
C15_PushRule ==
    /\ pushes <= 1
    /\ gpc \in {"validating", "committing", "landed", "threw"} => pushes = 0
    /\ gpc = "pushing" => (pushes = 1 /\ OkReports > 0)
    /\ gpc = "returned" =>
           /\ pushes = 1 <=> (config.autoPush /\ result.totalCommits > 0)
           /\ PushFailures(result.errors) <= pushes
           /\ PushFailures(result.errors) = 1 =>
                  result.errors[Len(result.errors)] = <<"push", 0>>
           /\ result.totalCommits = OkReports
           /\ Len(result.errors) = CommitFailures(result.errors)
                                       + PushFailures(result.errors)
                  \/ plan = << >>

\* a run that committed an entry, failed on another and whose push failed
C15_Witness ==
    /\ gpc = "returned"
    /\ PushFailures(result.errors) = 1
    /\ CommitFailures(result.errors) >= 1
    /\ result.totalCommits >= 1

C17_RollbackFailureSurfaced ==
    (rb.by \in {"engine", "handler"} /\ rb.pc = "threw") =>
        /\ rb.error = "GIT_OPERATION_FAILED"
        /\ rb.count > 0
        /\ generatedCommits >= rbCall.applied
        /\ rb.by = "engine" =>
               /\ generatedCommits = rbCall.applied
               /\ Len(history) = rb.total

\* rollback() with the count omitted has thrown after a run that committed
\* entries
C17_Witness ==
    /\ rb.by = "engine"
    /\ rb.pc = "threw"
    /\ rbCall.omitted
    /\ generatedCommits >= 1

\* C18: a call of cancel() sets the cancelled flag and changes nothing else,
\* neither the applied count nor the repository nor the position of the run;
\* a call with the flag set changes nothing at all; and the flag, once set,
\* stays set for the rest of the run.
C18_CancelIdempotent ==
    /\ [][Cancel => /\ cancelled'
                    /\ UNCHANGED <<cliVars, planVars, repoVars, generatedCommits,
                                   frameVars, commandVars, rb>>]_vars
    /\ [][(Cancel /\ cancelled) => UNCHANGED vars]_vars
    /\ [][cancelled => cancelled']_vars
    /\ [](atCancel.called => cancelled)

\* cancel() was called, by a caller and not by the interrupt handler, in a
\* run that has committed an entry and goes on: a state in which it can be
\* called again
C18_Witness ==
    /\ cancelled
    /\ atCancel.called
    /\ ~interrupted
    /\ gpc = "committing"
    /\ generatedCommits >= 1

\* the entries reported as committed among the first k reports
OkReportsUpTo(k) == Cardinality({j \in 1 .. k : progress[j][3] = "ok"})

\* C19 as stated: the first argument of every success report is the applied
\* count at that moment, also after earlier entries of the run have failed.
C19_ReportsAppliedCount ==
    \A k \in 1 .. Len(progress) :
        progress[k][3] = "ok" => progress[k][1] = OkReportsUpTo(k)

\* C19 amended: every success adds exactly 1 to the applied count, and every
\* entry, committed or failed, is reported once, in plan order, with its
\* plan position (from 1) and the plan length; so the first argument of a
\* success report is the applied count only while no entry has failed.
C19_ReportsPlanPosition ==
    /\ \A k \in 1 .. Len(progress) :
           /\ progress[k][1] = k
           /\ progress[k][2] = Len(plan)
    /\ Len(progress) <= Len(plan)
    /\ generatedCommits = OkReports \/ (rb.pc = "returned" /\ rb.count > 0)

\* an entry was reported as committed after an earlier entry was reported as
\* failed
C19_Witness ==
    \E j, k \in 1 .. Len(progress) :
        /\ j < k
        /\ progress[j][3] = "error"
        /\ progress[k][3] = "ok"

\* C20: with the template "commit #{{index}}" the message of every plan entry
\* renders the placeholder as the entry's index + 1, and the indices run
\* from 0 over the whole plan, one for each entry, without starting again
\* on a new day.
C20_IndexRendered ==
    built =>
        /\ \A k \in PlanIndices :
               plan[k].message = << <<"commit #", 0>>, <<"index", plan[k].index + 1>> >>
        /\ {plan[k].index : k \in PlanIndices} = 0 .. Len(plan) - 1

\* a plan over two days or more: the first entry generated renders 1, an
\* entry of a later day renders 3 or more
C20_Witness ==
    /\ built
    /\ \E k \in PlanIndices :
           /\ plan[k].index = 0
           /\ plan[k].message[2] = <<"index", 1>>
    /\ \E j, k \in PlanIndices :
           /\ dayOf(plan[j].date) < dayOf(plan[k].date)
           /\ plan[k].index >= 2
           /\ plan[k].message[2] = <<"index", plan[k].index + 1>>

----------------------------------------------------------------------------
(* Properties of the queries *)

\* C21: the estimate of every valid config has min <= expected <= max, and
\* with skipProbability = 0 it is activeDays * min, activeDays * (min + max)
\* / 2 rounded down, and activeDays * max.
C21_EstimateLaw ==
    answer[1] = "estimate" =>
        LET e == answer[2]
            active == Cardinality(ActiveDays(config))
        IN  /\ e.min <= e.expected
            /\ e.expected <= e.max
            /\ config.skipProbability = 0 =>
                   /\ e.min = active * config.commitsPerDay.min
                   /\ e.max = active * config.commitsPerDay.max
                   /\ e.expected =
                          (active * (config.commitsPerDay.min
                                         + config.commitsPerDay.max)) \div 2

\* an estimate with skipProbability = 0 whose expected count is rounded down
\* and lies strictly between min and max
C21_Witness ==
    /\ answer[1] = "estimate"
    /\ config.skipProbability = 0
    /\ (Cardinality(ActiveDays(config))
            * (config.commitsPerDay.min + config.commitsPerDay.max)) % 2 = 1
    /\ answer[2].min < answer[2].expected
    /\ answer[2].expected < answer[2].max

\* C22: a pair is accepted exactly when min and max are integers with
\* 0 <= min <= max <= 50; so min = max = 0 is accepted.
C22_CommitsPerDayValid ==
    answer[1] = "commitsPerDay" =>
        (answer[2].valid <=>
            /\ isInteger(answer[2].min)
            /\ isInteger(answer[2].max)
            /\ 0 <= answer[2].min
            /\ answer[2].min <= answer[2].max
            /\ answer[2].max <= 2 * MaxCommitsPerDay)

\* the days of [startDate, endDate] that fall on a Saturday or a Sunday
WeekendDays(cfg) ==
    {d \in cfg.startDate .. cfg.endDate : getDay(parseISO(d)) \in {0, 6}}

\* C23: the statistics of every valid range and skip set have totalDays =
\* weekdays + weekends and activeDays <= totalDays; totalDays is the number
\* of days of the range, and activeDays the number of them whose weekday is
\* not skipped, which are the days generateCommitPlan loops over.
C23_StatsFollowPlanDays ==
    answer[1] = "stats" =>
        LET st == answer[2]
        IN  /\ st.totalDays = config.endDate - config.startDate + 1
            /\ st.totalDays = st.weekdays + st.weekends
            /\ st.weekends = Cardinality(WeekendDays(config))
            /\ st.activeDays <= st.totalDays
            /\ st.activeDays = Cardinality(ActiveDays(config))
            /\ st.activeDays =
                   Len(getDaysInRange(config.startDate, config.endDate,
                                      config.skipDays))

\* statistics of a range with a weekend day, a weekday and a skipped day
C23_Witness ==
    /\ answer[1] = "stats"
    /\ answer[2].weekends > 0
    /\ answer[2].weekdays > 0
    /\ answer[2].activeDays > 0
    /\ answer[2].activeDays < answer[2].totalDays

----------------------------------------------------------------------------
(* Properties of the generate command *)

\* C24: in a dry run the command never calls generate(): no createCommit,
\* no push and no rollback is made, and no step changes the repository.
C24_DryRunTouchesNothing ==
    /\ [](dryRun =>
            /\ gpc = "idle"
            /\ attempted = << >>
            /\ landed = 0
            /\ pushes = 0
            /\ rb = NoRollback
            /\ generatedCommits = 0)
    /\ [][dryRun => UNCHANGED repoVars]_vars

\* a dry run that has listed a plan of two entries or more and returned
C24_Witness ==
    /\ dryRun
    /\ cmd = "done"
    /\ Len(preview) >= 2

\* a createCommit of the run is in flight: called and not yet returned
CommitInFlight == gpc \in {"committing", "landed"}

\* C25: at most one mutating operation is in flight against the repository:
\* no reset of a rollback is awaited while a createCommit of the run is in
\* flight, also when the interrupt handler runs during the generation.
C25_OneMutatingOperation == rb.pc = "resetting" => ~CommitInFlight

\* C29: the run attempts as many entries as the confirmation prompt and the
\* progress bar total show (the length of the previewed plan), and no
\* progress report carries a current value above that total.
C29_ConfirmedCountIsExecuted ==
    /\ (gpc = "returned" /\ cancelAt = -1) => Len(attempted) = Len(preview)
    /\ \A k \in 1 .. Len(progress) : progress[k][1] <= Len(preview)

----------------------------------------------------------------------------
(* Properties of the plan's indices and of its length *)

\* C27 as stated: the entry at position p (from 0) of the plan has index p.
C27_IndexIsPosition ==
    built => \A p \in PlanIndices : plan[p].index = p - 1

\* C27: the indices of a plan of n entries are 0 .. n-1, each borne by one
\* entry, given in generation order: an entry of an earlier day has a smaller
\* index than an entry of a later day, and an entry stands before one of a
\* smaller index only when both are of one day and it is strictly earlier.
C27_IndexIsGenerationOrder ==
    built =>
        /\ {plan[p].index : p \in PlanIndices} = 0 .. Len(plan) - 1
        /\ \A i, j \in PlanIndices :
               /\ dayOf(plan[i].date) < dayOf(plan[j].date)
                      => plan[i].index < plan[j].index
               /\ (i < j /\ plan[i].index > plan[j].index)
                      => /\ dayOf(plan[i].date) = dayOf(plan[j].date)
                         /\ getTime(plan[i].date) < getTime(plan[j].date)

\* a plan over two days or more in which an entry of the second day bears an
\* index that is not its position
C27_Witness ==
    /\ built
    /\ \E i, j \in PlanIndices :
           /\ dayOf(plan[i].date) < dayOf(plan[j].date)
           /\ plan[j].index # j - 1

\* C30 as stated: the length of the plan lies between the min and the max
\* of the estimate of its config.
C30_PlanLengthWithinEstimate ==
    built =>
        /\ estimateCommitCount(config).min <= Len(plan)
        /\ Len(plan) <= estimateCommitCount(config).max

\* C30: the length of the plan is at most the number of active days times
\* commitsPerDay.max; it lies between the min and the max of the estimate
\* when skipProbability is 0 or 1, the cases in which the expectation the
\* estimate is made of is what happens.
C30_PlanLengthBounds ==
    built =>
        /\ Len(plan) <= Cardinality(ActiveDays(config)) * config.commitsPerDay.max
        /\ config.skipProbability \in {0, RandScale} =>
               /\ estimateCommitCount(config).min <= Len(plan)
               /\ Len(plan) <= estimateCommitCount(config).max

\* a plan without random skip whose length lies strictly between the two
\* ends of the estimate, over two active days or more
C30_Witness ==
    /\ built
    /\ config.skipProbability = 0
    /\ Cardinality(ActiveDays(config)) >= 2
    /\ estimateCommitCount(config).min < Len(plan)
    /\ Len(plan) < estimateCommitCount(config).max

----------------------------------------------------------------------------
(* Properties of the engine's count and of the commits it leaves *)

\* a rollback of the engine whose reset has succeeded
AppliedReset ==
    /\ rb.by \in {"engine", "handler"}
    /\ rb.pc = "returned"
    /\ rb.count > 0

\* C26: generatedCommits is the number of createCommit calls of the run that
\* have succeeded, or 0 once a rollback of the engine has succeeded; a step
\* leaves it, adds 1 to it together with a success, or sets it to 0, which
\* only the start of generate() and a successful rollback do.
C26_AppliedCountLaw ==
    /\ [](generatedCommits = IF AppliedReset THEN 0 ELSE OkReports)
    /\ [][\/ generatedCommits' = generatedCommits /\ OkReports' = OkReports
          \/ generatedCommits' = generatedCommits + 1 /\ OkReports' = OkReports + 1
          \/ /\ generatedCommits' = 0
             /\ OkReports' = OkReports
             /\ gpc = "idle" \/ (~AppliedReset /\ AppliedReset')]_vars

\* two commits counted with a failed one in the same run, no rollback made
C26_Witness ==
    /\ generatedCommits >= 2
    /\ CommitFailures(errors) >= 1
    /\ rb = NoRollback

\* the positions of the history that hold commits of the run
RunCommits == {k \in 1 .. Len(history) : history[k] >= 0}

\* C28: createCommit is called for the plan positions 1, 2, ... in turn, one
\* call at a time, and the commits of the run stand in the history with
\* non-decreasing timestamps, whichever entries failed in between.
C28_HistoryInTimeOrder ==
    /\ \A k \in 1 .. Len(attempted) : attempted[k] = k
    /\ CommitInFlight => (pos = Len(attempted) /\ landed <= Len(attempted))
    /\ \A i, j \in RunCommits : i < j => history[i] <= history[j]

\* a run whose second entry failed before it committed, and whose first and
\* third entries stand in the history with different timestamps
C28_Witness ==
    /\ gpc = "returned"
    /\ rb = NoRollback
    /\ Len(plan) >= 3
    /\ \E k \in 1 .. Len(errors) : errors[k] = <<"commit", 2>>
    /\ landed = 2
    /\ generatedCommits = 2
    /\ \E i, j \in RunCommits : i < j /\ history[i] < history[j]

====
